---- MODULE Spec2Model ----
(***************************************************************************)
(* The Launcher of frontend/src-tauri/src/main.rs: main() builds the Tauri *)
(* application, whose setup closure looks up the "eve-flipper-backend"     *)
(* sidecar, spawns it with a fixed argument list, and on either failure    *)
(* formats a message, calls show_error and exits the process with status 1.*)
(*                                                                         *)
(* pc is the position of the main thread in main.rs:                       *)
(*   "main"        line 27, the builder is being run, setup not yet called *)
(*   "setup"       line 30, about to look the sidecar up                   *)
(*   "resolve_err" line 34, message formatted, about to call show_error    *)
(*   "resolve_exit" line 35, show_error returned, about to call exit(1)    *)
(*   "resolved"    line 38, sidecar command in hand, about to spawn        *)
(*   "spawn_err"   line 42, message formatted, about to call show_error    *)
(*   "spawn_exit"  line 43, show_error returned, about to call exit(1)     *)
(*   "setup_ok"    line 46, (_rx, _child) bound, about to return Ok(())    *)
(*   "app_running" line 48, setup has returned, the event loop runs        *)
(*   "exited"      the process has exited (exit(1) or normal shutdown)     *)
(*   "panicked"    line 49, run() returned Err and expect() panicked       *)
(* Strings are TLA+ strings; \o is concatenation.                          *)
(***************************************************************************)
EXTENDS Integers, Sequences, FiniteSets, TLC

VARIABLES
    pc,              \* position of the main thread (see above)
    platform,        \* "windows" or "other": which show_error is compiled in
    envPort,         \* a port setting present in the process environment ("" if none)
    resolveAttempts, \* number of calls of shell().sidecar(..)
    resolveResult,   \* "none", "Ok" or "BinaryNotFound"
    spawnAttempts,   \* number of calls of spawn()
    spawnResult,     \* "none", "Ok" or "SpawnFailed"
    spawnArgs,       \* the argument list handed to the child at spawn
    msg,             \* the local msg built by format! ("" before that)
    showErrorCalls,  \* number of calls of show_error
    stderr,          \* everything show_error has written to standard error
    dialogs,         \* the message boxes show_error has displayed
    rxHeld,          \* the local _rx (the child's event receiver) is alive
    childHeld,       \* the local _child (the CommandChild) is alive
    childStatus,     \* "none", "running" or "stopped": the backend process
    panicMsg,        \* payload of the panic raised by expect ("" if none)
    exitCode         \* <<>> while the process runs, <<c>> once it exited with c

vars == <<pc, platform, envPort, resolveAttempts, resolveResult, spawnAttempts,
          spawnResult, spawnArgs, msg, showErrorCalls, stderr, dialogs,
          rxHeld, childHeld, childStatus, panicMsg, exitCode>>

\* ---------------------------------------------------------------- bounds
\* Longest Debug rendering of a library error that is enumerated.
MaxDiagLen == 2

\* ------------------------------------------------------------- constants
Platforms == {"windows", "other"}

\* Port settings the environment may carry; main.rs reads none of them.
EnvPorts == {"", "13370", "8080"}

\* Characters the Debug rendering of an error is built from.
DiagChars == {"E", " ", "\n"}

RECURSIVE StringsUpTo(_)
StringsUpTo(n) ==
    IF n = 0 THEN {""}
    ELSE StringsUpTo(n - 1)
         \cup {s \o c : s \in StringsUpTo(n - 1), c \in DiagChars}

\* The `{:?}` renderings of the errors the shell plugin or the builder returns.
Diagnostics == StringsUpTo(MaxDiagLen)

DialogTitle == "EVE Flipper"

FatalExitCode == 1

NormalExitCode == 0

PanicExitCode == 101

\* ------------------------------------------------------ pure functions
\* sidecar.args(["--port", "13370"])
SidecarArgsFromEnv == <<"--port", IF envPort = "" THEN "13370" ELSE envPort>>

SidecarArgs == <<"--port", "13370">>

\* format!("Backend binary not found. ...\n\n{:?}", e)
ResolveFailMsg(e) ==
    "Backend binary not found. Run from the folder that contains eve-flipper-backend.exe.\n\n" \o e

\* format!("Failed to start backend server.\n\n{:?}", e)
SpawnFailMsg(e) == "Failed to start backend server.\n\n" \o e

\* expect("error while running tauri application") on Err(e)
ExpectPanicMsg(e) == "error while running tauri application: " \o e

\* #[cfg(not(windows))] show_error: eprintln!("EVE Flipper error: {}", m)
StderrLineNoNewline(m) == "EVE Flipper error: " \o m

StderrLine(m) == "EVE Flipper error: " \o m \o "\n"

\* #[cfg(windows)] show_error: MessageBoxW(null, msg, "EVE Flipper", MB_ICONERROR)
MessageBox(m) == [owner |-> "null", text |-> m, title |-> DialogTitle,
                  style |-> "MB_ICONERROR"]

\* ---------------------------------------------------------------- Init
Init ==
    /\ pc = "main"
    /\ platform \in Platforms
    /\ envPort \in EnvPorts
    /\ resolveAttempts = 0
    /\ resolveResult = "none"
    /\ spawnAttempts = 0
    /\ spawnResult = "none"
    /\ spawnArgs = <<>>
    /\ msg = ""
    /\ showErrorCalls = 0
    /\ stderr = ""
    /\ dialogs = <<>>
    /\ rxHeld = FALSE
    /\ childHeld = FALSE
    /\ childStatus = "none"
    /\ panicMsg = ""
    /\ exitCode = <<>>

\* ------------------------------------------------------------- actions
\* Builder::run builds the application and invokes the setup closure.
BuilderRun ==
    /\ pc = "main"
    /\ pc' = "setup"
    /\ UNCHANGED <<platform, envPort, resolveAttempts, resolveResult,
                   spawnAttempts, spawnResult, spawnArgs, msg, showErrorCalls,
                   stderr, dialogs, rxHeld, childHeld, childStatus, panicMsg,
                   exitCode>>

\* Builder::run returns Err(e) before setup is called; expect() panics.
RunError ==
    /\ pc = "main"
    /\ \E e \in Diagnostics : panicMsg' = ExpectPanicMsg(e)
    /\ pc' = "panicked"
    /\ exitCode' = <<PanicExitCode>>
    /\ UNCHANGED <<platform, envPort, resolveAttempts, resolveResult,
                   spawnAttempts, spawnResult, spawnArgs, msg, showErrorCalls,
                   stderr, dialogs, rxHeld, childHeld, childStatus>>

\* app.shell().sidecar("eve-flipper-backend"), both arms of the match.
SidecarLookupRetry ==
    /\ pc = "setup"
    /\ resolveAttempts' = resolveAttempts + 1
    /\ \/ /\ resolveResult' = "Ok"
          /\ pc' = "resolved"
          /\ msg' = msg
       \/ /\ resolveAttempts < 1
          /\ resolveResult' = "BinaryNotFound"
          /\ pc' = "setup"
          /\ msg' = msg
       \/ /\ resolveAttempts >= 1
          /\ \E e \in Diagnostics : msg' = ResolveFailMsg(e)
          /\ resolveResult' = "BinaryNotFound"
          /\ pc' = "resolve_err"
    /\ UNCHANGED <<platform, envPort, spawnAttempts, spawnResult, spawnArgs,
                   showErrorCalls, stderr, dialogs, rxHeld, childHeld,
                   childStatus, panicMsg, exitCode>>

SidecarLookupIgnoresError ==
    /\ pc = "setup"
    /\ resolveAttempts' = resolveAttempts + 1
    /\ resolveResult' \in {"Ok", "BinaryNotFound"}
    /\ pc' = "resolved"
    /\ UNCHANGED <<platform, envPort, spawnAttempts, spawnResult, spawnArgs,
                   msg, showErrorCalls, stderr, dialogs, rxHeld, childHeld,
                   childStatus, panicMsg, exitCode>>

SidecarLookup ==
    /\ pc = "setup"
    /\ resolveAttempts' = resolveAttempts + 1
    /\ \/ /\ resolveResult' = "Ok"
          /\ pc' = "resolved"
          /\ msg' = msg
       \/ /\ \E e \in Diagnostics : msg' = ResolveFailMsg(e)
          /\ resolveResult' = "BinaryNotFound"
          /\ pc' = "resolve_err"
    /\ UNCHANGED <<platform, envPort, spawnAttempts, spawnResult, spawnArgs,
                   showErrorCalls, stderr, dialogs, rxHeld, childHeld,
                   childStatus, panicMsg, exitCode>>

\* sidecar.args(["--port", "13370"]).spawn(), both arms of the match.
SpawnReportsOnSuccess ==
    /\ pc = "resolved"
    /\ spawnAttempts' = spawnAttempts + 1
    /\ spawnArgs' = SidecarArgs
    /\ \/ /\ spawnResult' = "Ok"
          /\ rxHeld' = TRUE
          /\ childHeld' = TRUE
          /\ childStatus' = "running"
          /\ msg' = SpawnFailMsg("")
          /\ pc' = "spawn_err"
       \/ /\ \E e \in Diagnostics : msg' = SpawnFailMsg(e)
          /\ spawnResult' = "SpawnFailed"
          /\ pc' = "spawn_err"
          /\ UNCHANGED <<rxHeld, childHeld, childStatus>>
    /\ UNCHANGED <<platform, envPort, resolveAttempts, resolveResult,
                   showErrorCalls, stderr, dialogs, panicMsg, exitCode>>

Spawn ==
    /\ pc = "resolved"
    /\ spawnAttempts' = spawnAttempts + 1
    /\ spawnArgs' = SidecarArgs
    /\ \/ /\ spawnResult' = "Ok"
          /\ rxHeld' = TRUE
          /\ childHeld' = TRUE
          /\ childStatus' = "running"
          /\ msg' = msg
          /\ pc' = "setup_ok"
       \/ /\ \E e \in Diagnostics : msg' = SpawnFailMsg(e)
          /\ spawnResult' = "SpawnFailed"
          /\ pc' = "spawn_err"
          /\ UNCHANGED <<rxHeld, childHeld, childStatus>>
    /\ UNCHANGED <<platform, envPort, resolveAttempts, resolveResult,
                   showErrorCalls, stderr, dialogs, panicMsg, exitCode>>

\* show_error(&msg) at either call site; the body is chosen by cfg(windows).
ShowErrorTwice ==
    /\ pc \in {"resolve_err", "spawn_err"}
    /\ showErrorCalls' = showErrorCalls + 2
    /\ IF platform = "windows"
       THEN /\ dialogs' = dialogs \o <<MessageBox(msg), MessageBox(msg)>>
            /\ stderr' = stderr
       ELSE /\ stderr' = stderr \o StderrLine(msg) \o StderrLine(msg)
            /\ dialogs' = dialogs
    /\ pc' = IF pc = "resolve_err" THEN "resolve_exit" ELSE "spawn_exit"
    /\ UNCHANGED <<platform, envPort, resolveAttempts, resolveResult,
                   spawnAttempts, spawnResult, spawnArgs, msg, rxHeld,
                   childHeld, childStatus, panicMsg, exitCode>>

ShowError ==
    /\ pc \in {"resolve_err", "spawn_err"}
    /\ showErrorCalls' = showErrorCalls + 1
    /\ IF platform = "windows"
       THEN /\ dialogs' = Append(dialogs, MessageBox(msg))
            /\ stderr' = stderr
       ELSE /\ stderr' = stderr \o StderrLine(msg)
            /\ dialogs' = dialogs
    /\ pc' = IF pc = "resolve_err" THEN "resolve_exit" ELSE "spawn_exit"
    /\ UNCHANGED <<platform, envPort, resolveAttempts, resolveResult,
                   spawnAttempts, spawnResult, spawnArgs, msg, rxHeld,
                   childHeld, childStatus, panicMsg, exitCode>>

\* std::process::exit(1) after show_error, at either call site.
ProcessExitFallsThrough ==
    /\ pc \in {"resolve_exit", "spawn_exit"}
    /\ pc' = IF pc = "resolve_exit" THEN "resolved" ELSE "setup_ok"
    /\ UNCHANGED <<platform, envPort, resolveAttempts, resolveResult,
                   spawnAttempts, spawnResult, spawnArgs, msg, showErrorCalls,
                   stderr, dialogs, rxHeld, childHeld, childStatus, panicMsg,
                   exitCode>>

ProcessExitZero ==
    /\ pc \in {"resolve_exit", "spawn_exit"}
    /\ exitCode' = <<NormalExitCode>>
    /\ pc' = "exited"
    /\ UNCHANGED <<platform, envPort, resolveAttempts, resolveResult,
                   spawnAttempts, spawnResult, spawnArgs, msg, showErrorCalls,
                   stderr, dialogs, rxHeld, childHeld, childStatus, panicMsg>>

ProcessExit ==
    /\ pc \in {"resolve_exit", "spawn_exit"}
    /\ exitCode' = <<FatalExitCode>>
    /\ pc' = "exited"
    /\ UNCHANGED <<platform, envPort, resolveAttempts, resolveResult,
                   spawnAttempts, spawnResult, spawnArgs, msg, showErrorCalls,
                   stderr, dialogs, rxHeld, childHeld, childStatus, panicMsg>>

\* Ok(()) and the end of the closure: the locals _rx and _child go out of
\* scope and are dropped.  Dropping a CommandChild does not kill the child.
SetupReturn ==
    /\ pc = "setup_ok"
    /\ rxHeld' = FALSE
    /\ childHeld' = FALSE
    /\ pc' = "app_running"
    /\ UNCHANGED <<platform, envPort, resolveAttempts, resolveResult,
                   spawnAttempts, spawnResult, spawnArgs, msg, showErrorCalls,
                   stderr, dialogs, childStatus, panicMsg, exitCode>>

\* The event loop ends, run() returns Ok, main returns.
AppExitKillsChild ==
    /\ pc = "app_running"
    /\ exitCode' = <<NormalExitCode>>
    /\ childStatus' = "stopped"
    /\ pc' = "exited"
    /\ UNCHANGED <<platform, envPort, resolveAttempts, resolveResult,
                   spawnAttempts, spawnResult, spawnArgs, msg, showErrorCalls,
                   stderr, dialogs, rxHeld, childHeld, panicMsg>>

AppExit ==
    /\ pc = "app_running"
    /\ exitCode' = <<NormalExitCode>>
    /\ pc' = "exited"
    /\ UNCHANGED <<platform, envPort, resolveAttempts, resolveResult,
                   spawnAttempts, spawnResult, spawnArgs, msg, showErrorCalls,
                   stderr, dialogs, rxHeld, childHeld, childStatus, panicMsg>>

\* The backend process stops by itself or is stopped by the operating system
\* (it is a separate process; the Launcher takes no part in this step).
ChildStops ==
    /\ childStatus = "running"
    /\ childStatus' = "stopped"
    /\ UNCHANGED <<pc, platform, envPort, resolveAttempts, resolveResult,
                   spawnAttempts, spawnResult, spawnArgs, msg, showErrorCalls,
                   stderr, dialogs, rxHeld, childHeld, panicMsg, exitCode>>

\* The steps taken by the Launcher itself.
LauncherStep ==
    \/ BuilderRun
    \/ RunError
    \/ SidecarLookup
    \/ Spawn
    \/ ShowError
    \/ ProcessExit
    \/ SetupReturn
    \/ AppExit

Next ==
    \/ BuilderRun
    \/ RunError
    \/ SidecarLookup
    \/ Spawn
    \/ ShowError
    \/ ProcessExit
    \/ SetupReturn
    \/ AppExit
    \/ ChildStops

Spec == Init /\ [][Next]_vars

\* ------------------------------------------------------------ properties
\* The state of the startup state machine the main thread is in.
State ==
    CASE pc = "main" -> "Launch"
      [] pc = "setup" -> "Init"
      [] pc = "resolved" -> "Resolved"
      [] pc \in {"setup_ok", "app_running"} -> "Running"
      [] pc \in {"resolve_err", "resolve_exit", "spawn_err", "spawn_exit"}
            -> "FatalError"
      [] pc = "exited" -> "Terminal"
      [] pc = "panicked" -> "Aborted"

Rank(s) ==
    CASE s = "Launch" -> 0
      [] s = "Init" -> 1
      [] s = "Resolved" -> 2
      [] s = "Running" -> 3
      [] s = "FatalError" -> 3
      [] s = "Terminal" -> 4
      [] s = "Aborted" -> 4

ExitSites == {"resolve_exit", "spawn_exit"}

\* C1: once the sidecar lookup has failed (BinaryNotFound), spawn is never
\* attempted, the thread is on the resolve failure arm or has exited,
\* show_error has been called exactly once by the time exit(1) is reached,
\* and the process exit status is 1.
C1_ResolveFailureIsFatal ==
    resolveResult = "BinaryNotFound" =>
        /\ pc \in {"resolve_err", "resolve_exit", "exited"}
        /\ spawnAttempts = 0
        /\ spawnResult = "none"
        /\ spawnArgs = <<>>
        /\ childStatus = "none"
        /\ showErrorCalls = (IF pc = "resolve_err" THEN 0 ELSE 1)
        /\ (pc = "exited" => exitCode = <<1>>)
        /\ (pc # "exited" => exitCode = <<>>)

C1_Witness ==
    /\ resolveResult = "BinaryNotFound"
    /\ pc = "exited"
    /\ showErrorCalls = 1
    /\ exitCode = <<1>>

\* C2: once spawn has failed (SpawnFailed), the Running state is never
\* entered and no child handle exists, show_error has been called exactly
\* once by the time exit(1) is reached, and the process exit status is 1.
C2_SpawnFailureIsFatal ==
    spawnResult = "SpawnFailed" =>
        /\ resolveResult = "Ok"
        /\ pc \in {"spawn_err", "spawn_exit", "exited"}
        /\ State # "Running"
        /\ ~rxHeld /\ ~childHeld
        /\ childStatus = "none"
        /\ showErrorCalls = (IF pc = "spawn_err" THEN 0 ELSE 1)
        /\ (pc = "exited" => exitCode = <<1>>)
        /\ (pc # "exited" => exitCode = <<>>)

C2_Witness ==
    /\ spawnResult = "SpawnFailed"
    /\ pc = "exited"
    /\ showErrorCalls = 1
    /\ exitCode = <<1>>

\* C3: when lookup and spawn both succeed, the step that spawns enters
\* Running with both handles bound and the child process running; in every
\* later state of that run show_error has not been called, nothing was
\* reported, and the exit status is not 1.
C3_SuccessReachesRunning ==
    /\ [](spawnResult = "Ok" =>
            /\ resolveResult = "Ok"
            /\ State \in {"Running", "Terminal"}
            /\ (pc = "setup_ok" => rxHeld /\ childHeld)
            /\ childStatus \in {"running", "stopped"}
            /\ showErrorCalls = 0
            /\ stderr = ""
            /\ dialogs = <<>>
            /\ exitCode # <<1>>)
    /\ [][(spawnResult # "Ok" /\ spawnResult' = "Ok") =>
            /\ pc' = "setup_ok"
            /\ rxHeld' /\ childHeld'
            /\ childStatus' = "running"]_vars

C3_Witness ==
    /\ spawnResult = "Ok"
    /\ pc = "setup_ok"
    /\ rxHeld /\ childHeld
    /\ childStatus = "running"

\* C4: whenever spawn has been attempted, the argument list handed to the
\* child is the two-element sequence "--port", "13370", whatever the
\* environment holds; before that no argument list exists.
C4_FixedArguments ==
    IF spawnAttempts > 0
    THEN /\ Len(spawnArgs) = 2
         /\ spawnArgs[1] = "--port"
         /\ spawnArgs[2] = "13370"
    ELSE spawnArgs = <<>>

C4_Witness ==
    /\ spawnAttempts = 1
    /\ envPort = "8080"
    /\ spawnArgs = <<"--port", "13370">>

\* C5: show_error is called at most once in a run, whatever the outcomes of
\* lookup and spawn; at most one dialog is shown.
C5_AtMostOneReport ==
    /\ showErrorCalls <= 1
    /\ Len(dialogs) <= 1
    /\ Len(dialogs) <= showErrorCalls

C5_Witness ==
    /\ showErrorCalls = 1
    /\ platform = "windows"
    /\ Len(dialogs) = 1
    /\ pc = "exited"

\* C6 as stated: on the non-Windows platform the text on standard error
\* equals the message passed to show_error.
C6_StderrEqualsMessage ==
    (platform = "other" /\ showErrorCalls = 1) => stderr = msg

\* C6 as amended: on the non-Windows platform show_error writes the label
\* "EVE Flipper error: ", then the message byte for byte, then one newline.
C6_StderrLabelledLine ==
    /\ (platform = "other" /\ showErrorCalls = 1) =>
          /\ Len(stderr) = Len(msg) + 20
          /\ SubSeq(stderr, 1, 19) = "EVE Flipper error: "
          /\ SubSeq(stderr, 20, 19 + Len(msg)) = msg
          /\ SubSeq(stderr, Len(stderr), Len(stderr)) = "\n"
    /\ \A m \in Diagnostics :
          /\ Len(StderrLine(m)) = Len(m) + 20
          /\ SubSeq(StderrLine(m), 1, 19) = "EVE Flipper error: "
          /\ SubSeq(StderrLine(m), 20, 19 + Len(m)) = m
          /\ SubSeq(StderrLine(m), Len(m) + 20, Len(m) + 20) = "\n"

C6_Witness ==
    /\ platform = "other"
    /\ showErrorCalls = 1
    /\ msg = SpawnFailMsg("E\n")
    /\ stderr # ""

\* C7: after a successful spawn the receiver and the child handle stay held
\* in every state until the process exits.
C7_HandlesRetained ==
    (spawnResult = "Ok" /\ pc # "exited") => (rxHeld /\ childHeld)

\* C8: the startup sequence is linear: lookup is attempted only in Init and
\* exactly once on every path through it, spawn at most once and only in
\* Resolved after a successful lookup, no step leads to an earlier state,
\* and from FatalError the only other state is Terminal, with no further
\* lookup or spawn.
C8_LinearNoRetry ==
    [][/\ resolveAttempts' <= 1
       /\ spawnAttempts' <= 1
       /\ (resolveAttempts' # resolveAttempts => State = "Init")
       /\ (spawnAttempts' # spawnAttempts =>
              State = "Resolved" /\ resolveResult = "Ok")
       /\ (State' \notin {"Launch", "Init", "Aborted"} => resolveAttempts' = 1)
       /\ (State' = "Running" => spawnAttempts' = 1)
       /\ Rank(State') >= Rank(State)
       /\ (State = "Init" => State' \in {"Init", "Resolved", "FatalError"})
       /\ (State = "Resolved" => State' \in {"Resolved", "Running", "FatalError"})
       /\ (State = "Running" => State' \in {"Running", "Terminal"})
       /\ (State = "FatalError" =>
              /\ State' \in {"FatalError", "Terminal"}
              /\ resolveAttempts' = resolveAttempts
              /\ spawnAttempts' = spawnAttempts)
       /\ (State = "Terminal" => State' = "Terminal")]_vars

C8_Witness ==
    /\ State = "Terminal"
    /\ resolveAttempts = 1
    /\ spawnAttempts = 1
    /\ spawnResult = "SpawnFailed"
    /\ platform = "other"

\* C9: a call of show_error leaves the thread at the exit(1) call of the
\* same arm, the next step of the thread from there is the process exit
\* with status 1, and exit status 1 arises only from there, after a report.
C9_ReportThenExit ==
    [][/\ (showErrorCalls' # showErrorCalls =>
              /\ pc' \in ExitSites
              /\ exitCode' = <<>>)
       /\ (pc \in ExitSites => showErrorCalls = 1)
       /\ ((pc \in ExitSites /\ pc' # pc) =>
              /\ pc' = "exited"
              /\ exitCode' = <<1>>)
       /\ ((exitCode' = <<1>> /\ exitCode # <<1>>) =>
              /\ pc \in ExitSites
              /\ showErrorCalls' = 1)
       /\ (pc' \in {"setup_ok", "app_running"} => showErrorCalls' = 0)]_vars

C9_Witness ==
    /\ pc = "resolve_exit"
    /\ showErrorCalls = 1
    /\ exitCode = <<>>

\* C10: once a child has been spawned, no step of the Launcher changes the
\* child's running/stopped status, the exit of the Launcher included.
C10_LauncherNeverStopsChild ==
    [][(LauncherStep /\ childStatus # "none") =>
            childStatus' = childStatus]_vars

C10_Witness ==
    /\ pc = "exited"
    /\ exitCode = <<0>>
    /\ childStatus = "running"

====
